---- MODULE Spec2Model ----
(***************************************************************************)
(* fasthtml_otel: OpenTelemetry spans streamed to a FastHTML page.         *)
(*                                                                         *)
(* The model follows src/fasthtml_otel/processors.py (the two span         *)
(* processors), src/fasthtml_otel/renderers.py (the shipped renderers)     *)
(* and src/fasthtml_otel/streamer.py (OTelStreamer: queue, renderer        *)
(* registration, the SSE generator).                                       *)
(*                                                                         *)
(* Python values are represented as follows.                               *)
(*   None                      the integer -1 (span ids are >= 0)          *)
(*   f"span-children-{n}"      [role |-> "span-children-", n |-> n]        *)
(*   a fragment (FT node)      a record naming the renderer, the part, the *)
(*                             span, the ids it carries and its emptiness  *)
(*   to_xml(node)              <<node>>, the empty string is <<>>          *)
(*   an exception              the field exc of an operator's result       *)
(* Renderers supplied by the application ("Custom", "R1", "R2") are part   *)
(* of the environment: what each of their methods does on a call is an     *)
(* input of the callback.                                                  *)
(***************************************************************************)
EXTENDS Integers, Sequences, FiniteSets, TLC

MaxSpans == 2
MaxRenderers == 2
MaxCalls == 2
MaxHeartbeats == 1
MaxStreamCalls == 3
MaxTimedCalls == 2
MaxFaults == 1
MaxNameLen == 3
MaxPatternLen == 2
MaxPatterns == 1

None == -1

SpanIds == 1..MaxSpans
\* span ids a parent reference can carry; 0 is OpenTelemetry's invalid span id
ParentRefs == 0..MaxSpans

VARIABLES
    use_thread_safe_queue,  \* OTelStreamer.use_thread_safe_queue
    renderer,               \* the configured (fallback) renderer
    custom_renderers,       \* OTelStreamer.custom_renderers
    proc_renderers,         \* ThreadSafeSpanProcessor.renderers
    spans,                  \* processor.spans: span id -> last span seen
    parent_child_map,       \* processor.parent_child_map: child id -> parent id
    queue,                  \* the queue.Queue / asyncio.Queue
    tasks,                  \* event loop: created queue.put tasks not yet run
    source,                 \* the tracing runtime: each span's life and parent
    conn,                   \* the stream connection: none, open, closed
    pc,                     \* position of the _telemetry_generator loop
    orphans,                \* executor threads left blocked in queue.get
    emitted,                \* events the generator has yielded
    produced,               \* every patch a callback handed to the enqueue
    calls,                  \* the callbacks made so far: <<op, span id, loop>>
    last,                   \* what the latest callback did
    faults,                 \* exceptions raised inside the generator loop
    dispatch,               \* a _get_renderer_for_span call under way
    rendered,               \* the latest DefaultSpanRenderer.render_complete_span
    wrapped,                \* the renderer register_attribute_renderer built
    threads,                \* callbacks under way on threads, by statement
    time,                   \* the generator's timers and the time measured
    other                   \* the loop of a second stream connection

vars == <<use_thread_safe_queue, renderer, custom_renderers, proc_renderers,
          spans, parent_child_map, queue, tasks, source, conn, pc, orphans,
          emitted, produced, calls, last, faults, dispatch, rendered,
          wrapped, threads, time, other>>

config == <<use_thread_safe_queue, renderer, other>>
consumer == <<conn, pc, orphans, emitted, faults>>
producer == <<spans, parent_child_map, source, produced, calls, last>>
registry == <<custom_renderers, proc_renderers>>
aside == <<dispatch, rendered, wrapped, threads>>

----------------------------------------------------------------------------
(* Element ids                                                             *)

ElementId(role, n) == [role |-> role, n |-> n]

container_id == ElementId("telemetry-container", None)

children_container_id(span_id) == ElementId("span-children-", span_id)

header_id(span_id) == ElementId("span-header-", span_id)

attributes_id(span_id) == ElementId("span-attributes-", span_id)

events_id(span_id) == ElementId("span-events-", span_id)

\* Python truthiness of an Optional[int]
Truthy(x) == x # None /\ x # 0

----------------------------------------------------------------------------
(* Renderers                                                               *)

ShippedRenderers == {"Default", "Compact"}
ListRenderers == <<"R1", "R2", "R3">>
UserRenderers == {"Custom", "R1", "R2", "R3"}
\* example/math_renderer.py
ExampleRenderers == {"Math"}

CanOutcomes == {"true", "false", "raise"}
\* what a method of an application renderer does on one call: it returns a
\* fragment, an empty fragment, something to_xml cannot serialize, or raises
RenderOutcomes == {"ok", "empty", "badxml", "raise"}
Parts == {"complete", "header", "attributes", "events"}

NoFragment ==
    [by |-> "none", part |-> "none", span |-> None, empty |-> TRUE,
     ids |-> {}, is_root |-> FALSE, xml |-> FALSE]

Fragment(by, part, span_id, empty, ids, is_root) ==
    [by |-> by, part |-> part, span |-> span_id, empty |-> empty,
     ids |-> ids, is_root |-> is_root, xml |-> TRUE]

Returns(v) == [exc |-> FALSE, val |-> v]
Raises == [exc |-> TRUE, val |-> NoFragment]

\* a method of an application renderer, driven by the environment's outcome
UserRender(by, part, span_id, ids, is_root, out) ==
    CASE out = "raise"  -> Raises
      [] out = "empty"  -> Returns(Fragment(by, part, span_id, TRUE, {}, is_root))
      [] out = "badxml" -> Returns([Fragment(by, part, span_id, FALSE, ids, is_root)
                                       EXCEPT !.xml = FALSE])
      [] OTHER          -> Returns(Fragment(by, part, span_id, FALSE, ids, is_root))

\* MathRenderer.render_header, render_attributes, render_events: Div()
math_render_part(part, span) ==
    Returns(Fragment("Math", part, span.span_id, TRUE, {}, FALSE))

\* Faulty variant: a span the renderer shows nothing of gets no element
\* at all, not even the container of its children.
math_render_skipping(span, cid, is_root, out) ==
    IF out = "empty"
    THEN Returns(Fragment("Math", "complete", span.span_id, TRUE, {}, is_root))
    ELSE Returns(Fragment("Math", "complete", span.span_id, FALSE, {cid},
                          is_root))

\* MathRenderer.render_complete_span: the children container always, with
\* the renderer's content before it unless the span is one it does not show
\* (out = "empty": _should_render_span is false or no content part applies)
math_render_complete_span(span, cid, is_root, out) ==
    Returns(Fragment("Math", "complete", span.span_id, out = "empty", {cid},
                     is_root))

render_header(r, span, out) ==
    IF r \in ExampleRenderers THEN math_render_part("header", span)
    ELSE IF r \in ShippedRenderers
    THEN Returns(Fragment(r, "header", span.span_id, FALSE,
                          {header_id(span.span_id)}, FALSE))
    ELSE UserRender(r, "header", span.span_id, {header_id(span.span_id)},
                    FALSE, out)

render_attributes(r, span, out) ==
    CASE r = "Default" ->
           IF ~span.attributes
           THEN Returns(Fragment(r, "attributes", span.span_id, TRUE, {}, FALSE))
           ELSE Returns(Fragment(r, "attributes", span.span_id, FALSE,
                                 {attributes_id(span.span_id)}, FALSE))
      [] r = "Compact" ->
           Returns(Fragment(r, "attributes", span.span_id, TRUE, {}, FALSE))
      [] r = "Math" -> math_render_part("attributes", span)
      [] OTHER ->
           UserRender(r, "attributes", span.span_id,
                      {attributes_id(span.span_id)}, FALSE, out)

render_events(r, span, out) ==
    CASE r = "Default" ->
           IF ~span.events
           THEN Returns(Fragment(r, "events", span.span_id, TRUE, {}, FALSE))
           ELSE Returns(Fragment(r, "events", span.span_id, FALSE,
                                 {events_id(span.span_id)}, FALSE))
      [] r = "Compact" ->
           Returns(Fragment(r, "events", span.span_id, TRUE, {}, FALSE))
      [] r = "Math" -> math_render_part("events", span)
      [] OTHER ->
           UserRender(r, "events", span.span_id, {events_id(span.span_id)},
                      FALSE, out)

\* the call renderer.render_complete_span(span, children_container_id,
\* is_root=is_root) of the processors
render_complete_span(r, span, cid, is_root, out) ==
    CASE r = "Default" ->
           Returns(Fragment(r, "complete", span.span_id, FALSE,
                            {cid, header_id(span.span_id)}
                              \cup render_attributes(r, span, out).val.ids
                              \cup render_events(r, span, out).val.ids,
                            is_root))
      [] r = "Compact" ->
           \* CompactSpanRenderer.render_complete_span(self, span,
           \* children_container_id) has no is_root parameter: TypeError
           Raises
      [] r = "Math" -> math_render_complete_span(span, cid, is_root, out)
      [] OTHER ->
           UserRender(r, "complete", span.span_id, {cid}, is_root, out)

----------------------------------------------------------------------------
(* The initial expanded state of DefaultSpanRenderer.render_complete_span. *)
(* A span name and a pattern are sequences of characters.                  *)

Chars == {"T", "t", ":"}

\* str.lower(), character by character
lower_char(c) == IF c = "T" THEN "t" ELSE c

\* Faulty variant: the comparison keeps the case.
lower_kept(str) == str

lower(str) == [i \in DOMAIN str |-> lower_char(str[i])]

\* Python's "sub in str"
contains(sub, str) ==
    \E k \in 0..(Len(str) - Len(sub)) : SubSeq(str, k + 1, k + Len(sub)) = sub

\* for pattern in self.auto_expand_patterns:
\*     if pattern.lower() in span.name.lower(): should_expand = True; break
RECURSIVE expand_loop(_, _, _, _)
expand_loop(patterns, name, i, should_expand) ==
    IF i > Len(patterns) THEN should_expand
    ELSE IF contains(lower(patterns[i]), lower(name)) THEN TRUE
    ELSE expand_loop(patterns, name, i + 1, should_expand)

\* should_expand = is_root, then the loop; Input(..., checked=should_expand)
should_expand(patterns, name, is_root) ==
    expand_loop(patterns, name, 1, is_root)

----------------------------------------------------------------------------
(* Serialization and the patch wrappers                                    *)

\* Div(content, hx_swap_oob=swap, id=target)
Div(content, swap, target) == [swap |-> swap, id |-> target, body |-> content]

\* to_xml(node): the markup text; a node that cannot be serialized raises
to_xml(node) ==
    IF node.body.xml THEN [exc |-> FALSE, val |-> <<node>>]
    ELSE [exc |-> TRUE, val |-> <<>>]

----------------------------------------------------------------------------
(* Renderer dispatch                                                       *)

\* Faulty variant: the registration order is walked from its end, so the
\* renderer registered last wins.
RECURSIVE LastMatch(_, _, _, _)
LastMatch(renderers, fallback, can, i) ==
    IF i < 1 THEN [exc |-> FALSE, r |-> fallback]
    ELSE IF can[i] = "true" THEN [exc |-> FALSE, r |-> renderers[i]]
    ELSE LastMatch(renderers, fallback, can, i - 1)

get_renderer_last_match(renderers, fallback, can) ==
    LastMatch(renderers, fallback, can, Len(renderers))

\* Faulty variant: no try/except around can_render, so a raising predicate
\* ends the loop with its exception.
RECURSIVE FirstMatchUncaught(_, _, _, _)
FirstMatchUncaught(renderers, fallback, can, i) ==
    IF i > Len(renderers) THEN [exc |-> FALSE, r |-> fallback]
    ELSE IF can[i] = "raise" THEN [exc |-> TRUE, r |-> "none"]
    ELSE IF can[i] = "true" THEN [exc |-> FALSE, r |-> renderers[i]]
    ELSE FirstMatchUncaught(renderers, fallback, can, i + 1)

get_renderer_uncaught(renderers, fallback, can) ==
    FirstMatchUncaught(renderers, fallback, can, 1)

\* for renderer in self.renderers: try: if renderer.can_render(span): return
\* renderer; except Exception: continue; afterwards return self.renderer
RECURSIVE FirstMatch(_, _, _, _)
FirstMatch(renderers, fallback, can, i) ==
    IF i > Len(renderers) THEN [exc |-> FALSE, r |-> fallback]
    ELSE IF can[i] = "true" THEN [exc |-> FALSE, r |-> renderers[i]]
    ELSE FirstMatch(renderers, fallback, can, i + 1)

get_renderer_for_span(renderers, fallback, can) ==
    FirstMatch(renderers, fallback, can, 1)

----------------------------------------------------------------------------
(* register_attribute_renderer.  A Python object is its class and its      *)
(* instance dictionary; a bound method is the object it is bound to and    *)
(* the class whose function it runs.  Attribute keys are small strings;    *)
(* span.attributes is None or a mapping, of which the keys matter.         *)

AttributeKeys == {"k1", "k2"}
NoAttributes == [none |-> TRUE, keys |-> {}]
SpanAttributes ==
    {NoAttributes} \cup [none : {FALSE}, keys : SUBSET AttributeKeys]

\* the names dir(renderer) lists that do not start with "_": the methods of
\* the SpanRenderer interface
PublicNames ==
    {"can_render", "render_header", "render_attributes", "render_events",
     "render_complete_span"}

BoundMethod(self, cls, name) == [self |-> self, cls |-> cls, name |-> name]

\* getattr(renderer, attr_name) on the renderer passed in: the method of
\* its class, bound to it
getattr_renderer(r, name) == BoundMethod(r, r, name)

\* AttributeRenderer(): __init__ copies every public attribute of the
\* wrapped renderer into the new instance with setattr
AttributeRenderer(r, key) ==
    [cls |-> "AttributeRenderer", base |-> r, key |-> key,
     dict |-> [n \in PublicNames |-> getattr_renderer(r, n)]]

\* getattr(wrapper, name): a function of the class is not a data
\* descriptor, so the instance dictionary is looked up first, then
\* AttributeRenderer (which defines can_render), then type(renderer)
getattr_wrapper(w, name) ==
    IF name \in DOMAIN w.dict THEN w.dict[name]
    ELSE IF name = "can_render"
    THEN BoundMethod("wrapper", "AttributeRenderer", name)
    ELSE BoundMethod("wrapper", w.base, name)

\* AttributeRenderer.can_render: attrs = span.attributes or {};
\* return attribute_key in attrs
attribute_can_render(key, attributes) ==
    LET attrs == IF attributes.none THEN {} ELSE attributes.keys
    IN  IF key \in attrs THEN "true" ELSE "false"

\* the call wrapper.can_render(span); own: what can_render of the wrapped
\* renderer does for the span (SpanRenderer.can_render returns True)
wrapper_can_render(w, attributes, own) ==
    LET m == getattr_wrapper(w, "can_render")
    IN  IF m.cls = "AttributeRenderer"
        THEN attribute_can_render(w.key, attributes)
        ELSE IF m.cls \in ShippedRenderers THEN "true" ELSE own

----------------------------------------------------------------------------
(* Parent resolution (on_start / _handle_start)                            *)

\* A parent_context: absent or empty (falsy), or carrying a current span.
NoContext == [present |-> FALSE, recording |-> FALSE, span_id |-> 0]

\* SpanContext.is_valid of the span in the context: its ids are non-zero
is_valid(ctx) == ctx.span_id # 0

\* the id found through trace.get_current_span(parent_context), or None
context_parent(ctx) ==
    IF ctx.present /\ ctx.recording /\ is_valid(ctx) THEN ctx.span_id ELSE None

\* parent_id after the fallback to span.parent; span.parent is None or a
\* SpanContext, and a SpanContext (a non-empty tuple) is always truthy
resolve_parent(ctx, span) ==
    LET parent_id == context_parent(ctx) IN
    IF ~Truthy(parent_id) /\ span.parent # None THEN span.parent ELSE parent_id

\* parent_child_map after the two assignments of the start handler
record_parent(pcm, ctx, span) ==
    LET p1 == context_parent(ctx)
        m1 == IF p1 # None THEN (span.span_id :> p1) @@ pcm ELSE pcm
    IN  IF ~Truthy(p1) /\ span.parent # None
        THEN (span.span_id :> span.parent) @@ m1 ELSE m1

\* Faulty variant: every span is appended to the root container.
target_id_flat(parent_id) == container_id

\* Faulty variant: the root flag is taken from the presence of a parent.
is_root_inverted(parent_id) == parent_id # None

\* target_id = f"span-children-{parent_id}" if parent_id else self.container_id
target_id(parent_id) ==
    IF Truthy(parent_id) THEN children_container_id(parent_id) ELSE container_id

\* is_root = parent_id is None
is_root_of(parent_id) == parent_id = None

----------------------------------------------------------------------------
(* Enqueue                                                                 *)

\* ThreadSafeSpanProcessor.__init__: the kind of queue the streamer passed
is_async_queue == ~use_thread_safe_queue
is_sync_queue == use_thread_safe_queue

\* The effect of one enqueue on the queue, the created tasks and the caller
\* (blocked: the caller waits for room).  loop: the calling thread has a
\* running event loop.
QueueOf(st) == [queue |-> st.queue, tasks |-> st.tasks, blocked |-> st.blocked]

\* queue.Queue(): maxsize 0, no upper bound
maxsize == 0

\* Faulty variant: queue.Queue(maxsize=1).put(data), which waits for room
\* while the queue holds an item.
put_blocking(qs, data) ==
    IF Len(qs.queue) >= 1 THEN [qs EXCEPT !.blocked = TRUE]
    ELSE [qs EXCEPT !.queue = Append(@, data)]

\* queue.Queue.put_nowait: never waits; on a full queue it raises queue.Full,
\* which _put_in_queue catches and logs
put_nowait(qs, data) ==
    IF maxsize > 0 /\ Len(qs.queue) >= maxsize THEN qs
    ELSE [qs EXCEPT !.queue = Append(@, data)]

\* loop.create_task(self.queue.put(data)): the put runs later, on the loop
create_task(qs, data) == [qs EXCEPT !.tasks = Append(@, data)]

\* ThreadSafeSpanProcessor._put_in_queue
put_in_queue(qs, data, loop) ==
    IF is_async_queue
    THEN IF loop THEN create_task(qs, data)
         ELSE qs                       \* RuntimeError caught, warning logged
    ELSE IF is_sync_queue
    THEN put_nowait(qs, data)
    ELSE qs

\* FastHTMLSpanProcessor._queue_update
queue_update(qs, html, loop) ==
    IF loop THEN create_task(qs, html)
    ELSE qs        \* get_running_loop raises RuntimeError: caught and logged

----------------------------------------------------------------------------
(* The callbacks. A handler's result: the tracker maps and the queue after *)
(* it, what it handed to the enqueue (puts), whether an exception left it  *)
(* (exc), and for the record the renderer it selected, the placement it    *)
(* resolved and the internal errors that occurred (errors).                *)

PartId(part, span_id) ==
    CASE part = "header"     -> header_id(span_id)
      [] part = "attributes" -> attributes_id(span_id)
      [] OTHER               -> events_id(span_id)

RenderPart(r, part, span, out) ==
    CASE part = "header"     -> render_header(r, span, out[part])
      [] part = "attributes" -> render_attributes(r, span, out[part])
      [] OTHER               -> render_events(r, span, out[part])

Outcome(st, qs, puts, exc, errors, sel, parent_id, target, is_root) ==
    [spans |-> st.spans, pcm |-> st.pcm, queue |-> qs.queue, tasks |-> qs.tasks,
     blocked |-> qs.blocked, puts |-> puts, exc |-> exc, errors |-> errors, renderer |-> sel,
     parent_id |-> parent_id, target_id |-> target, is_root |-> is_root]

\* the enqueue failed inside (no running loop for an asyncio.Queue)
PutLost(qs, qs2) == qs2 = qs

\* ThreadSafeSpanProcessor._handle_start, the body of its try
ts_handle_start_body(st0, span, ctx, can, out, loop) ==
    LET span_id   == span.span_id
        st        == [st0 EXCEPT !.spans = (span_id :> span) @@ @,
                                 !.pcm = record_parent(@, ctx, span)]
        parent_id == resolve_parent(ctx, span)
        target    == target_id(parent_id)
        cid       == children_container_id(span_id)
        is_root   == is_root_of(parent_id)
        canerr    == IF \E i \in 1..Len(can) : can[i] = "raise"
                     THEN {"can_render"} ELSE {}
        sel       == get_renderer_for_span(proc_renderers, renderer, can)
        html      == render_complete_span(sel.r, span, cid, is_root, out)
        xml       == to_xml(Div(html.val, "beforeend", target))
        qs        == QueueOf(st)
        qs2       == put_in_queue(qs, xml.val, loop)
    IN  IF sel.exc
        THEN Outcome(st, qs, <<>>, TRUE, {"can_render"}, "none",
                     parent_id, target, is_root)
        ELSE IF html.exc
        THEN Outcome(st, qs, <<>>, TRUE, canerr \cup {"render"}, sel.r,
                     parent_id, target, is_root)
        ELSE IF xml.exc
        THEN Outcome(st, qs, <<>>, TRUE, canerr \cup {"serialize"}, sel.r,
                     parent_id, target, is_root)
        ELSE Outcome(st, qs2, <<xml.val>>, FALSE,
                     canerr \cup (IF PutLost(qs, qs2) THEN {"enqueue"} ELSE {}),
                     sel.r, parent_id, target, is_root)

\* try: ... except Exception: logger.exception(...)
ts_handle_start(st0, span, ctx, can, out, loop) ==
    [ts_handle_start_body(st0, span, ctx, can, out, loop) EXCEPT !.exc = FALSE]

\* FastHTMLSpanProcessor.on_start, the body of its try: always self.renderer
fast_on_start_body(st0, span, ctx, can, out, loop) ==
    LET span_id   == span.span_id
        st        == [st0 EXCEPT !.spans = (span_id :> span) @@ @,
                                 !.pcm = record_parent(@, ctx, span)]
        parent_id == resolve_parent(ctx, span)
        target    == target_id(parent_id)
        cid       == children_container_id(span_id)
        is_root   == is_root_of(parent_id)
        html      == render_complete_span(renderer, span, cid, is_root, out)
        xml       == to_xml(Div(html.val, "beforeend", target))
        qs        == QueueOf(st)
        qs2       == queue_update(qs, xml.val, loop)
    IN  IF html.exc
        THEN Outcome(st, qs, <<>>, TRUE, {"render"}, renderer,
                     parent_id, target, is_root)
        ELSE IF xml.exc
        THEN Outcome(st, qs, <<>>, TRUE, {"serialize"}, renderer,
                     parent_id, target, is_root)
        ELSE Outcome(st, qs2, <<xml.val>>, FALSE,
                     IF PutLost(qs, qs2) THEN {"enqueue"} ELSE {},
                     renderer, parent_id, target, is_root)

fast_on_start(st0, span, ctx, can, out, loop) ==
    [fast_on_start_body(st0, span, ctx, can, out, loop) EXCEPT !.exc = FALSE]

\* Faulty variant: an end-time update is skipped when the rendered fragment
\* is empty.
ts_end_part_skip_empty(acc, r, span, part, out, loop) ==
    LET frag == RenderPart(r, part, span, out)
        xml  == to_xml(Div(frag.val, "innerHTML", PartId(part, span.span_id)))
        qs   == QueueOf(acc)
        qs2  == put_in_queue(qs, xml.val, loop)
    IN  IF acc.exc THEN acc
        ELSE IF frag.exc
        THEN [acc EXCEPT !.exc = TRUE, !.errors = @ \cup {"render"}]
        ELSE IF frag.val.empty THEN acc
        ELSE IF xml.exc
        THEN [acc EXCEPT !.exc = TRUE, !.errors = @ \cup {"serialize"}]
        ELSE [acc EXCEPT !.queue = qs2.queue, !.tasks = qs2.tasks,
                         !.blocked = qs2.blocked,
                         !.puts = Append(@, xml.val),
                         !.errors = @ \cup (IF PutLost(qs, qs2)
                                            THEN {"enqueue"} ELSE {})]

\* One end-time update of the thread-safe processor: render, wrap,
\* serialize, enqueue; nothing more once an exception is under way.
ts_end_part(acc, r, span, part, out, loop) ==
    LET frag == RenderPart(r, part, span, out)
        xml  == to_xml(Div(frag.val, "innerHTML", PartId(part, span.span_id)))
        qs   == QueueOf(acc)
        qs2  == put_in_queue(qs, xml.val, loop)
    IN  IF acc.exc THEN acc
        ELSE IF frag.exc
        THEN [acc EXCEPT !.exc = TRUE, !.errors = @ \cup {"render"}]
        ELSE IF xml.exc
        THEN [acc EXCEPT !.exc = TRUE, !.errors = @ \cup {"serialize"}]
        ELSE [acc EXCEPT !.queue = qs2.queue, !.tasks = qs2.tasks,
                         !.blocked = qs2.blocked,
                         !.puts = Append(@, xml.val),
                         !.errors = @ \cup (IF PutLost(qs, qs2)
                                            THEN {"enqueue"} ELSE {})]

\* ThreadSafeSpanProcessor._handle_end, the body of its try
ts_handle_end_body(st0, span, can, out, loop) ==
    LET span_id == span.span_id
        st      == [st0 EXCEPT !.spans = (span_id :> span) @@ @]
        canerr  == IF \E i \in 1..Len(can) : can[i] = "raise"
                   THEN {"can_render"} ELSE {}
        sel     == get_renderer_for_span(proc_renderers, renderer, can)
        qs      == QueueOf(st)
        a0      == Outcome(st, qs, <<>>, FALSE, canerr, sel.r, None,
                           container_id, FALSE)
        a1      == ts_end_part(a0, sel.r, span, "header", out, loop)
        a2      == ts_end_part(a1, sel.r, span, "attributes", out, loop)
        a3      == ts_end_part(a2, sel.r, span, "events", out, loop)
    IN  IF sel.exc
        THEN Outcome(st, qs, <<>>, TRUE, {"can_render"}, "none", None,
                     container_id, FALSE)
        ELSE a3

\* Faulty variant: the end handler drops the ended span's entry of the
\* child-to-parent map.
ts_handle_end_forgets(st0, span, can, out, loop) ==
    LET res == ts_handle_end_body(st0, span, can, out, loop)
    IN  [res EXCEPT !.exc = FALSE,
                    !.pcm = [i \in DOMAIN res.pcm \ {span.span_id} |->
                               res.pcm[i]]]

\* Faulty variant: the end handler keeps to the renderer that rendered the
\* span's start patch, when there is one, instead of asking the dispatcher.
ts_handle_end_pinned(st0, span, can, out, loop) ==
    LET mine   == SelectSeq(produced,
                            LAMBDA x : /\ x[1].swap = "beforeend"
                                       /\ x[1].body.span = span.span_id)
        pinned == [i \in 1..Len(can) |->
                     IF proc_renderers[i] = mine[1][1].body.by
                     THEN "true" ELSE "false"]
    IN  [ts_handle_end_body(st0, span, IF mine = <<>> THEN can ELSE pinned,
                            out, loop) EXCEPT !.exc = FALSE]

\* Faulty variant: the end handler evicts the record of the ended span.
ts_handle_end_evicts(st0, span, can, out, loop) ==
    LET res == ts_handle_end_body(st0, span, can, out, loop)
    IN  [res EXCEPT !.exc = FALSE,
                    !.spans = [i \in DOMAIN res.spans \ {span.span_id} |->
                                 res.spans[i]]]

\* Faulty variant: _handle_end without its try/except.
ts_handle_end_uncaught(st0, span, can, out, loop) ==
    ts_handle_end_body(st0, span, can, out, loop)

\* try: ... except Exception: logger.exception(...)
ts_handle_end(st0, span, can, out, loop) ==
    [ts_handle_end_body(st0, span, can, out, loop) EXCEPT !.exc = FALSE]

\* One of the three closing statements of FastHTMLSpanProcessor.on_end:
\* self._queue_update(to_xml(wrapper))
fast_end_put(acc, frag, part, span_id, loop) ==
    LET xml == to_xml(Div(frag.val, "innerHTML", PartId(part, span_id)))
        qs  == QueueOf(acc)
        qs2 == queue_update(qs, xml.val, loop)
    IN  IF acc.exc THEN acc
        ELSE IF xml.exc
        THEN [acc EXCEPT !.exc = TRUE, !.errors = @ \cup {"serialize"}]
        ELSE [acc EXCEPT !.queue = qs2.queue, !.tasks = qs2.tasks,
                         !.blocked = qs2.blocked,
                         !.puts = Append(@, xml.val),
                         !.errors = @ \cup (IF PutLost(qs, qs2)
                                            THEN {"enqueue"} ELSE {})]

\* FastHTMLSpanProcessor.on_end, the body of its try: the three render
\* calls first, then the three enqueues
fast_on_end_body(st0, span, can, out, loop) ==
    LET span_id == span.span_id
        st      == [st0 EXCEPT !.spans = (span_id :> span) @@ @]
        h       == render_header(renderer, span, out["header"])
        a       == render_attributes(renderer, span, out["attributes"])
        e       == render_events(renderer, span, out["events"])
        qs      == QueueOf(st)
        a0      == Outcome(st, qs, <<>>, FALSE, {}, renderer, None,
                           container_id, FALSE)
        a1      == fast_end_put(a0, h, "header", span_id, loop)
        a2      == fast_end_put(a1, a, "attributes", span_id, loop)
        a3      == fast_end_put(a2, e, "events", span_id, loop)
    IN  IF h.exc \/ a.exc \/ e.exc
        THEN [a0 EXCEPT !.exc = TRUE, !.errors = {"render"}]
        ELSE a3

fast_on_end(st0, span, can, out, loop) ==
    [fast_on_end_body(st0, span, can, out, loop) EXCEPT !.exc = FALSE]

\* The OpenTelemetry context of the calling thread, as far as the key
\* _SUPPRESS_INSTRUMENTATION_KEY goes: whether it is set.
\* attach(set_value(_SUPPRESS_INSTRUMENTATION_KEY, True)) makes the context
\* with the key set current and returns a token for the previous one.
attach(context) == [context |-> TRUE, token |-> context]

\* detach(token) makes the previous context current again
detach(token) == token

\* ThreadSafeSpanProcessor._suppress_instrumentation(func, ...): res is what
\* func does; "finally" runs detach whether func returned or raised
suppress_instrumentation(context, res) ==
    LET a == attach(context)
    IN  res @@ [ctx_before |-> context, ctx_during |-> a.context,
                ctx_after |-> detach(a.token)]

\* FastHTMLSpanProcessor.on_start / on_end: the body runs in the caller's
\* context as it is
in_callers_context(context, res) ==
    res @@ [ctx_before |-> context, ctx_during |-> context,
            ctx_after |-> context]

\* The processor the streamer installed (OTelStreamer.__init__)
on_start(st0, span, ctx, can, out, loop) ==
    IF use_thread_safe_queue
    THEN suppress_instrumentation(st0.suppress,
             ts_handle_start(st0, span, ctx, can, out, loop))
    ELSE in_callers_context(st0.suppress,
             fast_on_start(st0, span, ctx, can, out, loop))

on_end(st0, span, can, out, loop) ==
    IF use_thread_safe_queue
    THEN suppress_instrumentation(st0.suppress,
             ts_handle_end(st0, span, can, out, loop))
    ELSE in_callers_context(st0.suppress,
             fast_on_end(st0, span, can, out, loop))

----------------------------------------------------------------------------
(* The inputs of a callback                                                *)
(*                                                                         *)
(* The specifications share the actions below and differ in the inputs    *)
(* they let the environment choose:                                        *)
(*   "tree"     every parent context and static parent, default renderer   *)
(*   "render"   every renderer configuration and every outcome of the      *)
(*              renderers' methods, a few callbacks                        *)
(*   "stream"   the SSE generator running beside the callbacks             *)
(*   "timed"    the generator with time measured                           *)
(*   "math"     the example MathRenderer registered                        *)
(*   "suppress" callers with and without the suppress key set              *)
(*   "threads"  callbacks followed statement by statement on two threads   *)
(*   "shared"   root spans, two stream connections over the one queue      *)

\* a span as the tracing runtime passes it
Span(span_id, parent, attributes, events, ended) ==
    [span_id |-> span_id, parent |-> parent, attributes |-> attributes,
     events |-> events, ended |-> ended]

\* The parent_context of on_start(span_id, ...): none, or one whose current
\* span is the invalid span (id 0) or another span of the process, which is
\* recording until it has ended.
Contexts(span_id) ==
    {NoContext} \cup
    {c \in [present : {TRUE}, recording : BOOLEAN,
            span_id : ParentRefs \ {span_id}] :
        c.span_id # 0 => (c.recording <=> source[c.span_id].state = "started")}

\* span.parent: None or the SpanContext of another span (its span_id)
StaticParents(span_id) == {None} \cup (ParentRefs \ {span_id})

\* "threads": no context, or the one of the span started just before
ContextInputs(profile, span_id) ==
    IF profile = "tree" THEN Contexts(span_id)
    ELSE IF profile = "threads"
    THEN {c \in Contexts(span_id) :
            c = NoContext \/ (c.recording /\ c.span_id = span_id - 1)}
    ELSE {NoContext}

ParentInputs(profile, span_id) ==
    IF profile = "tree" THEN StaticParents(span_id)
    ELSE IF profile = "shared" THEN {None}
    ELSE {None} \cup {p \in SpanIds : p = span_id - 1}

\* whether span.attributes / span.events hold anything
ContentInputs(profile) == IF profile = "content" THEN BOOLEAN ELSE {FALSE}

\* what can_render of each registered renderer does for this span: of the
\* renderers the ThreadSafeSpanProcessor holds, which calls it, or of the
\* renderers registered with the streamer, whose FastHTMLSpanProcessor
\* never calls it (its answers are followed in the "math" profile only)
CanInputs(profile) ==
    IF use_thread_safe_queue
    THEN [1..Len(proc_renderers) -> CanOutcomes]
    ELSE IF profile = "math"
    THEN [1..Len(custom_renderers) -> CanOutcomes]
    ELSE {<<>>}

Selected(can) ==
    IF use_thread_safe_queue
    THEN get_renderer_for_span(proc_renderers, renderer, can).r
    ELSE renderer

EndParts == {"header", "attributes", "events"}

\* what the render calls of the selected renderer do, when it is the
\* application's
StartOutcomes(can) ==
    IF Selected(can) \in ExampleRenderers THEN {"ok", "empty"}
    ELSE IF Selected(can) \in UserRenderers THEN RenderOutcomes \ {"empty"}
    ELSE {"ok"}

\* The three calls all return content, or all return an empty fragment, or
\* one of them fails (after the first failure the handlers make no further
\* call) and the others return content.
EndOutcomes(can) ==
    IF Selected(can) \in UserRenderers
    THEN {[p \in EndParts |-> "ok"], [p \in EndParts |-> "empty"]} \cup
         {[p \in EndParts |-> IF p = q THEN bad ELSE "ok"] :
            q \in EndParts, bad \in {"raise", "badxml"}}
    ELSE {[p \in EndParts |-> "ok"]}

\* whether the calling thread has a running event loop; it matters to the
\* asyncio.Queue only
LoopInputs(profile) ==
    IF use_thread_safe_queue
       \/ profile \in {"tree", "timed", "math", "threads", "shared"}
    THEN {TRUE}
    ELSE BOOLEAN

\* whether the caller's context already has the suppress key set
SuppressInputs(profile) == IF profile = "suppress" THEN BOOLEAN ELSE {FALSE}

\* the threads the tracing runtime makes its callbacks on: a race takes two
Threads == {"t1", "t2"}

IdleThread ==
    [pc |-> "idle", op |-> "none",
     span |-> Span(None, None, FALSE, FALSE, FALSE), ctx |-> NoContext,
     todo |-> <<>>, snap |-> <<>>]

\* The record of the latest callback: its inputs (span, ctx, can), where the
\* stream stood when it ran (conn, qlen) and what it did.
NoCall ==
    [op |-> "none", span |-> Span(None, None, FALSE, FALSE, FALSE),
     ctx |-> NoContext, can |-> <<>>, conn |-> "none", qlen |-> 0,
     parent_id |-> None, target_id |-> container_id, is_root |-> FALSE,
     renderer |-> "none", puts |-> <<>>, raised |-> FALSE, errors |-> {},
     ctx_before |-> FALSE, ctx_during |-> FALSE, ctx_after |-> FALSE]

Call(op, span, ctx, can, res) ==
    [op |-> op, span |-> span, ctx |-> ctx, can |-> can, conn |-> conn,
     qlen |-> Len(queue), parent_id |-> res.parent_id,
     target_id |-> res.target_id, is_root |-> res.is_root,
     renderer |-> res.renderer, puts |-> res.puts, raised |-> res.exc,
     errors |-> res.errors, ctx_before |-> res.ctx_before,
     ctx_during |-> res.ctx_during, ctx_after |-> res.ctx_after]

State == [spans |-> spans, pcm |-> parent_child_map,
          queue |-> queue, tasks |-> tasks, blocked |-> FALSE,
          suppress |-> FALSE]

----------------------------------------------------------------------------
(* Time.  One tick is 0.1 s.  The record holds the generator's running     *)
(* timer (the bounded wait or a sleep) and, measured in ticks: idle, since *)
(* the last patch was enqueued; quiet, since the last enqueue or emitted   *)
(* event; hb_idle, a heartbeat was emitted since the last enqueue; owed,   *)
(* "owed" once idle exceeds the bounded wait with no heartbeat since the   *)
(* last enqueue, "missed" once a telemetry event is emitted while owed.    *)
(* With on = FALSE no time is measured.                                    *)

\* queue.get(block=True, timeout=1.0) / wait_for(self.queue.get(), timeout=1.0)
WaitTicks == 10
\* await asyncio.sleep(1.0) after a heartbeat
SleepTicks == 10
\* await asyncio.sleep(0.1) after a logged error
BackoffTicks == 1

NoClock ==
    [on |-> FALSE, timer |-> 0, idle |-> 0, quiet |-> 0, hb_idle |-> FALSE,
     owed |-> "no"]

StartClock == [NoClock EXCEPT !.on = TRUE]

\* a wait or sleep of n ticks begins
Armed(t, n) == IF t.on THEN [t EXCEPT !.timer = n] ELSE t

\* the running wait or sleep has lasted its time
Expired(t) == t.on => t.timer = 0

\* a callback enqueues a patch
Enqueued(t) ==
    IF t.on THEN [t EXCEPT !.idle = 0, !.quiet = 0, !.hb_idle = FALSE] ELSE t

\* yield {"event": "heartbeat", "data": ""}
HeartbeatYielded(t) ==
    IF t.on
    THEN [t EXCEPT !.quiet = 0, !.hb_idle = TRUE,
                   !.owed = IF @ = "owed" THEN "no" ELSE @]
    ELSE t

\* yield {"event": "TelemetryEvent", "data": msg}
TelemetryYielded(t) ==
    IF t.on
    THEN [t EXCEPT !.quiet = 0, !.owed = IF @ = "owed" THEN "missed" ELSE @]
    ELSE t

\* 0.1 s passes
Ticked(t) ==
    LET idle == IF t.idle > WaitTicks THEN t.idle ELSE t.idle + 1
    IN  [t EXCEPT !.timer = IF @ > 0 THEN @ - 1 ELSE 0,
                  !.idle = idle,
                  !.quiet = IF @ > WaitTicks THEN @ ELSE @ + 1,
                  !.owed = IF @ = "no" /\ idle > WaitTicks /\ ~t.hb_idle
                           THEN "owed" ELSE @]

----------------------------------------------------------------------------
(* Actions                                                                 *)

\* no render_complete_span call has been looked at for its expanded state
NoRender ==
    [done |-> FALSE, name |-> <<>>, patterns |-> <<>>, is_root |-> FALSE,
     checked |-> FALSE]

\* no _get_renderer_for_span call has been followed step by step
NoDispatch ==
    [state |-> "idle", live |-> FALSE, list |-> <<>>, i |-> 0, can |-> <<>>,
     before |-> <<>>, after |-> <<>>, result |-> "none"]

\* no callback is under way on any thread
NoThreads ==
    [run |-> [t \in Threads |-> IdleThread],
     resolved |-> [i \in SpanIds |-> None],
     overlapped |-> FALSE]

\* register_attribute_renderer has not been called
NoWrapper ==
    [state |-> "none", object |-> AttributeRenderer("none", "none"),
     attributes |-> NoAttributes, own |-> "true", part |-> "none", result |-> "none",
     method |-> BoundMethod("none", "none", "none")]

\* OTelStreamer.__init__ (through configure or otel_streamer), followed
\* by add_renderer for each renderer of configure(renderers=customs)
ConfiguredWith(renderers, customs) ==
    /\ use_thread_safe_queue \in BOOLEAN
    /\ renderer \in renderers
    /\ custom_renderers = customs
    /\ proc_renderers = IF use_thread_safe_queue THEN customs ELSE <<>>
    /\ spans = <<>>
    /\ parent_child_map = <<>>
    /\ queue = <<>>
    /\ tasks = <<>>
    /\ source = [i \in SpanIds |->
                   [state |-> "unseen", parent |-> None, attributes |-> FALSE]]
    /\ conn = "none"
    /\ pc = "none"
    /\ orphans = 0
    /\ emitted = <<>>
    /\ produced = <<>>
    /\ calls = <<>>
    /\ last = NoCall
    /\ faults = 0
    /\ dispatch = NoDispatch
    /\ rendered = NoRender
    /\ wrapped = NoWrapper
    /\ threads = NoThreads
    /\ other = [conn |-> "none", pc |-> "none", emitted |-> <<>>]

Configured(renderers) == ConfiguredWith(renderers, <<>>)

\* OTelStreamer.add_renderer
AddRenderer ==
    /\ Len(custom_renderers) < MaxRenderers
    /\ custom_renderers' =
         Append(custom_renderers, ListRenderers[Len(custom_renderers) + 1])
    /\ proc_renderers' =
         IF use_thread_safe_queue THEN custom_renderers' ELSE proc_renderers
    /\ UNCHANGED <<config, aside, spans, parent_child_map, queue, tasks, source,
                   consumer, produced, calls, last, time>>

\* add_renderer and _get_renderer_for_span statement by statement, for a
\* dispatch that runs on one thread while add_renderer runs on another.
\* ThreadSafeSpanProcessor.renderers starts as the processor's own empty
\* list; the first add_renderer binds it to the streamer's custom_renderers
\* list, and from then on an append to that list is an append to the list
\* the processor iterates.

\* Faulty variant: the list the processor iterates is emptied and refilled
\* on every registration.
visible_cleared(renderers, r) == <<>>

\* what self.custom_renderers.append(renderer) makes of the list the
\* processor holds
visible_after_append(renderers, r) ==
    IF renderers # <<>> THEN Append(renderers, r) ELSE renderers

\* self.custom_renderers.append(renderer)
AppendRenderer ==
    /\ Len(custom_renderers) < MaxRenderers
    /\ ~use_thread_safe_queue \/ proc_renderers = custom_renderers
    /\ custom_renderers' =
         Append(custom_renderers, ListRenderers[Len(custom_renderers) + 1])
    /\ proc_renderers' =
         IF use_thread_safe_queue
         THEN visible_after_append(proc_renderers,
                                   ListRenderers[Len(custom_renderers) + 1])
         ELSE proc_renderers
    /\ UNCHANGED <<config, spans, parent_child_map, queue, tasks, source,
                   consumer, produced, calls, last, aside, time>>

\* if hasattr(self.processor, 'renderers'):
\*     self.processor.renderers = self.custom_renderers
BindRenderers ==
    /\ use_thread_safe_queue
    /\ proc_renderers # custom_renderers
    /\ proc_renderers' = custom_renderers
    /\ UNCHANGED <<config, custom_renderers, spans, parent_child_map, queue,
                   tasks, source, consumer, produced, calls, last, aside,
                   time>>

\* "for renderer in self.renderers:" takes the list self.renderers holds
\* now; can: what can_render of each renderer answers for the span
BeginDispatch ==
    /\ use_thread_safe_queue
    /\ dispatch.state # "running"
    /\ \E can \in [1..MaxRenderers -> CanOutcomes] :
         dispatch' = [state |-> "running", live |-> proc_renderers # <<>>,
                      list |-> proc_renderers, i |-> 0, can |-> can,
                      before |-> proc_renderers, after |-> <<>>,
                      result |-> "none"]
    /\ UNCHANGED <<config, registry, spans, parent_child_map, queue, tasks,
                   source, consumer, produced, calls, last, rendered, wrapped,
                   threads, time>>

\* one turn of the loop: the next renderer of the list as it is now, its
\* can_render in try/except, or the end of the list and the fallback
StepDispatch ==
    /\ dispatch.state = "running"
    /\ LET list == IF dispatch.live THEN proc_renderers ELSE dispatch.list
           i    == dispatch.i + 1
       IN  dispatch' =
             IF i > Len(list)
             THEN [dispatch EXCEPT !.state = "done", !.result = renderer,
                                   !.after = custom_renderers]
             ELSE IF dispatch.can[i] = "true"
             THEN [dispatch EXCEPT !.state = "done", !.result = list[i],
                                   !.i = i, !.after = custom_renderers]
             ELSE [dispatch EXCEPT !.i = i]
    /\ UNCHANGED <<config, registry, spans, parent_child_map, queue, tasks,
                   source, consumer, produced, calls, last, rendered, wrapped,
                   threads, time>>

\* register_attribute_renderer(key, r): the wrapper is built and handed to
\* add_renderer
RegisterAttributeRenderer ==
    /\ wrapped.state = "none"
    /\ \E r \in ShippedRenderers \cup {"Custom"}, key \in AttributeKeys :
         wrapped' = [wrapped EXCEPT !.state = "registered",
                                    !.object = AttributeRenderer(r, key)]
    /\ custom_renderers' = Append(custom_renderers, "AttributeRenderer")
    /\ proc_renderers' =
         IF use_thread_safe_queue THEN custom_renderers' ELSE proc_renderers
    /\ UNCHANGED <<config, spans, parent_child_map, queue, tasks, source,
                   consumer, produced, calls, last, dispatch, rendered, threads,
                   time>>

\* the dispatcher asks the registered wrapper: wrapper.can_render(span),
\* and looks up one of its render methods
CallWrapper ==
    /\ wrapped.state # "none"
    /\ \E attributes \in SpanAttributes, part \in Parts,
          own \in (IF wrapped.object.base \in ShippedRenderers
                   THEN {"true"} ELSE CanOutcomes) :
         wrapped' =
           [wrapped EXCEPT
              !.state = "called", !.attributes = attributes, !.own = own,
              !.part = part,
              !.result = wrapper_can_render(wrapped.object, attributes, own),
              !.method = getattr_wrapper(wrapped.object,
                           IF part = "complete" THEN "render_complete_span"
                           ELSE "render_" \o part)]
    /\ UNCHANGED <<config, registry, spans, parent_child_map, queue, tasks,
                   source, consumer, produced, calls, last, dispatch, rendered,
                   threads, time>>

\* span names and auto-expand patterns
Strings(n) == UNION {[1..k -> Chars] : k \in 0..n}
Names == Strings(MaxNameLen) \ {<<>>}
PatternLists == UNION {[1..k -> Strings(MaxPatternLen)] : k \in 0..MaxPatterns}

\* DefaultSpanRenderer(auto_expand_patterns=patterns)
\*     .render_complete_span(span, children_container_id, is_root)
RenderDefault ==
    /\ ~rendered.done
    /\ \E name \in Names, patterns \in PatternLists, is_root \in BOOLEAN :
         rendered' = [done |-> TRUE, name |-> name, patterns |-> patterns,
                      is_root |-> is_root,
                      checked |-> should_expand(patterns, name, is_root)]
    /\ UNCHANGED <<config, registry, spans, parent_child_map, queue, tasks,
                   source, consumer, produced, calls, last, dispatch, wrapped,
                   threads, time>>

Started == {i \in SpanIds : source[i].state # "unseen"}

Apply(op, span, ctx, can, loop, res) ==
    /\ ~res.blocked
    /\ spans' = res.spans
    /\ parent_child_map' = res.pcm
    /\ queue' = res.queue
    /\ tasks' = res.tasks
    /\ produced' = produced \o res.puts
    /\ calls' = Append(calls, <<op, span.span_id, loop>>)
    /\ last' = Call(op, span, ctx, can, res)
    /\ time' = IF res.puts # <<>> THEN Enqueued(time) ELSE time

\* The tracing runtime starts the next span: processor.on_start(span, ctx).
\* Span ids are opaque: they are numbered in the order the spans start.
OnStart(profile) ==
    \E span_id \in SpanIds, attributes \in ContentInputs(profile) :
      /\ source[span_id].state = "unseen"
      /\ span_id = Cardinality(Started) + 1
      /\ \E ctx \in ContextInputs(profile, span_id),
            parent \in ParentInputs(profile, span_id),
            can \in CanInputs(profile), loop \in LoopInputs(profile),
            suppress \in SuppressInputs(profile) :
           \E out \in StartOutcomes(can) :
             LET span == Span(span_id, parent, attributes, FALSE, FALSE)
                 res  == on_start([State EXCEPT !.suppress = suppress], span,
                                  ctx, can, out, loop)
             IN  /\ Apply("start", span, ctx, can, loop, res)
                 /\ source' = [source EXCEPT ![span_id] =
                                 [state |-> "started", parent |-> parent,
                                  attributes |-> attributes]]
      /\ UNCHANGED <<config, aside, custom_renderers, proc_renderers, consumer>>

\* The tracing runtime ends a started span: processor.on_end(span)
OnEnd(profile) ==
    \E span_id \in SpanIds, events \in ContentInputs(profile) :
      /\ source[span_id].state = "started"
      /\ \E can \in CanInputs(profile), loop \in LoopInputs(profile),
            suppress \in SuppressInputs(profile) :
           \E out \in EndOutcomes(can) :
             LET span == Span(span_id, source[span_id].parent,
                              source[span_id].attributes, events, TRUE)
                 res  == on_end([State EXCEPT !.suppress = suppress], span,
                                can, out, loop)
             IN  /\ Apply("end", span, NoContext, can, loop, res)
                 /\ source' = [source EXCEPT ![span_id].state = "ended"]
      /\ UNCHANGED <<config, aside, custom_renderers, proc_renderers, consumer>>

\* The event loop runs the oldest created task: await queue.put(html)
RunTask ==
    /\ tasks # <<>>
    /\ queue' = Append(queue, Head(tasks))
    /\ tasks' = Tail(tasks)
    /\ UNCHANGED <<config, aside, custom_renderers, proc_renderers, spans,
                   parent_child_map, source, consumer, produced, calls, last,
                   time>>

----------------------------------------------------------------------------
(* Callbacks on several threads.  The processors take no lock: a callback  *)
(* is followed statement by statement where it writes the shared maps.     *)
(* "self.spans[span_id] = span" first loads the dictionary self.spans      *)
(* names (LOAD_ATTR), then stores into that dictionary (STORE_SUBSCR), one *)
(* indivisible operation on the dictionary as it is at that moment.        *)
(* threads.run[t] is the callback under way on thread t: todo, the stores  *)
(* it still has to make; snap, the dictionary's content when it was        *)
(* loaded.  threads.resolved[i] is the parent_id the start handler of span *)
(* i resolved; threads.overlapped, a store was made into a dictionary that *)
(* another thread had written since this thread loaded it.                 *)

StoreSubscr(map, key, span, parent) ==
    [map |-> map, key |-> key, span |-> span, parent |-> parent]

\* the subscript stores of on_start / _handle_start, in order
start_stores(span, ctx) ==
    LET p1 == context_parent(ctx)
    IN  << StoreSubscr("spans", span.span_id, span, None) >>
        \o (IF p1 # None
            THEN << StoreSubscr("parent_child_map", span.span_id, span, p1) >>
            ELSE <<>>)
        \o (IF ~Truthy(p1) /\ span.parent # None
            THEN << StoreSubscr("parent_child_map", span.span_id, span,
                                span.parent) >>
            ELSE <<>>)

\* the subscript store of on_end / _handle_end
end_stores(span) == << StoreSubscr("spans", span.span_id, span, None) >>

\* Faulty variant: the store is made into the content that was loaded, and
\* the result replaces the shared dictionary.
store_subscr_on_copy(snapshot, current, key, value) ==
    (key :> value) @@ snapshot

\* STORE_SUBSCR on the dictionary object loaded before: the entry is set
\* in the dictionary as it is now
store_subscr(snapshot, current, key, value) == (key :> value) @@ current

Busy(span_id) ==
    \E u \in Threads : /\ threads.run[u].pc # "idle"
                        /\ threads.run[u].span.span_id = span_id

\* the tracing runtime starts a span on thread t: on_start(span, ctx) begins
ThreadBeginStart(t) ==
    /\ threads.run[t].pc = "idle"
    /\ \E span_id \in SpanIds :
         /\ source[span_id].state = "unseen"
         /\ span_id = Cardinality(Started) + 1
         /\ \E ctx \in {c \in ContextInputs("threads", span_id) :
                            ~Busy(c.span_id)},
               parent \in ParentInputs("threads", span_id) :
              LET span == Span(span_id, parent, FALSE, FALSE, FALSE)
              IN  /\ threads' =
                       [threads EXCEPT
                          !.run[t] = [pc |-> "load", op |-> "start",
                                      span |-> span, ctx |-> ctx,
                                      todo |-> start_stores(span, ctx),
                                      snap |-> <<>>],
                          !.resolved[span_id] = resolve_parent(ctx, span)]
                  /\ source' = [source EXCEPT ![span_id] =
                                  [state |-> "started", parent |-> parent,
                                   attributes |-> FALSE]]
    /\ UNCHANGED <<config, registry, consumer, spans, parent_child_map, queue,
                   tasks, produced, calls, last, dispatch, rendered, wrapped,
                   time>>

\* the tracing runtime ends a span on thread t: on_end(span) begins
ThreadBeginEnd(t) ==
    /\ threads.run[t].pc = "idle"
    /\ \E span_id \in SpanIds :
         /\ source[span_id].state = "started"
         /\ ~Busy(span_id)
         /\ LET span == Span(span_id, source[span_id].parent, FALSE, FALSE,
                             TRUE)
            IN  threads' =
                  [threads EXCEPT
                     !.run[t] = [pc |-> "load", op |-> "end", span |-> span,
                                 ctx |-> NoContext, todo |-> end_stores(span),
                                 snap |-> <<>>]]
         /\ source' = [source EXCEPT ![span_id].state = "ended"]
    /\ UNCHANGED <<config, registry, consumer, spans, parent_child_map, queue,
                   tasks, produced, calls, last, dispatch, rendered, wrapped,
                   time>>

SharedMap(name) == IF name = "spans" THEN spans ELSE parent_child_map

\* thread t evaluates self.spans / self.parent_child_map
ThreadLoad(t) ==
    /\ threads.run[t].pc = "load"
    /\ threads' =
         [threads EXCEPT
            !.run[t].pc = "store",
            !.run[t].snap = SharedMap(Head(threads.run[t].todo).map)]
    /\ UNCHANGED <<config, registry, consumer, producer, queue, tasks,
                   dispatch, rendered, wrapped, time>>

\* thread t stores the entry
ThreadStore(t) ==
    /\ threads.run[t].pc = "store"
    /\ LET st   == Head(threads.run[t].todo)
           rest == Tail(threads.run[t].todo)
           snap == threads.run[t].snap
       IN  /\ IF st.map = "spans"
              THEN /\ spans' = store_subscr(snap, spans, st.key, st.span)
                   /\ UNCHANGED parent_child_map
              ELSE /\ parent_child_map' =
                        store_subscr(snap, parent_child_map, st.key,
                                     st.parent)
                   /\ UNCHANGED spans
           /\ threads' =
                [threads EXCEPT
                   !.run[t].pc = IF rest = <<>> THEN "rest" ELSE "load",
                   !.run[t].todo = rest,
                   !.run[t].snap = <<>>,
                   !.overlapped = @ \/ snap # SharedMap(st.map)]
    /\ UNCHANGED <<config, registry, consumer, source, produced, calls, last,
                   queue, tasks, dispatch, rendered, wrapped, time>>

\* thread t runs the rest of the handler: rendering, serialization and the
\* enqueue, and returns
ThreadRest(t) ==
    /\ threads.run[t].pc = "rest"
    /\ \E loop \in LoopInputs("threads") :
         LET run == threads.run[t]
             res == IF run.op = "start"
                    THEN on_start(State, run.span, run.ctx, <<>>, "ok", loop)
                    ELSE on_end(State, run.span, <<>>,
                                [p \in EndParts |-> "ok"], loop)
         IN  /\ queue' = res.queue
             /\ tasks' = res.tasks
             /\ produced' = produced \o res.puts
             /\ calls' = Append(calls, <<run.op, run.span.span_id, loop>>)
             /\ last' = Call(run.op, run.span, run.ctx, <<>>, res)
             /\ time' = IF res.puts # <<>> THEN Enqueued(time) ELSE time
    /\ threads' = [threads EXCEPT !.run[t] = IdleThread]
    /\ UNCHANGED <<config, registry, consumer, spans, parent_child_map,
                   source, dispatch, rendered, wrapped>>

----------------------------------------------------------------------------
(* The SSE generator, OTelStreamer._telemetry_generator                    *)

Event(name, data) == [event |-> name, data |-> data]

\* Faulty variant: the event is yielded without the message.
Telemetry_without_payload(msg) == Event("TelemetryEvent", <<>>)

\* yield {"event": "TelemetryEvent", "data": msg}
Telemetry(msg) == Event("TelemetryEvent", msg)
\* yield {"event": "heartbeat", "data": ""}
Heartbeat == Event("heartbeat", <<>>)

\* OTelStreamer.create_container: the inner Div, which subscribes to the
\* stream
create_container ==
    [hx_ext |-> "sse", sse_swap |-> "TelemetryEvent", hx_swap |-> "beforeend",
     id |-> container_id]

Heartbeats == Len(SelectSeq(emitted, LAMBDA e : e.event = "heartbeat"))


\* GET endpoint: EventSourceResponse(self._telemetry_generator()); the loop
\* runs to its first bounded wait
Connect ==
    /\ conn = "none"
    /\ conn' = "open"
    /\ pc' = "wait"
    /\ time' = Armed(time, WaitTicks)
    /\ UNCHANGED <<config, aside, registry, producer, queue, tasks, orphans, emitted,
                   faults>>

\* Faulty variant: the get returns the oldest item and leaves it in the queue.
queue_get_kept(q) == [item |-> Head(q), rest |-> q]

\* queue.get / self.queue.get of a non-empty queue: the oldest item leaves
\* the queue
queue_get(q) == [item |-> Head(q), rest |-> Tail(q)]

\* the bounded wait obtains a patch: yield {"event": "TelemetryEvent", ...}
GetPatch ==
    /\ pc = "wait"
    /\ queue # <<>>
    /\ queue' = queue_get(queue).rest
    /\ emitted' = Append(emitted, Telemetry(queue_get(queue).item))
    /\ pc' = "yieldT"
    /\ time' = TelemetryYielded(time)
    /\ UNCHANGED <<config, aside, registry, producer, tasks, orphans, conn, faults>>

\* the bounded wait times out on an empty queue: yield the heartbeat
GetTimeout ==
    /\ pc = "wait"
    /\ queue = <<>>
    /\ Expired(time)
    /\ Heartbeats < MaxHeartbeats
    /\ emitted' = Append(emitted, Heartbeat)
    /\ pc' = "yieldH"
    /\ time' = HeartbeatYielded(time)
    /\ UNCHANGED <<config, aside, registry, producer, queue, tasks, orphans, conn,
                   faults>>

\* the response asks for the next event after a telemetry event
ResumeAfterTelemetry ==
    /\ conn = "open"
    /\ pc = "yieldT"
    /\ pc' = "wait"
    /\ time' = Armed(time, WaitTicks)
    /\ UNCHANGED <<config, aside, registry, producer, queue, tasks, orphans, conn,
                   emitted, faults>>

\* the response asks for the next event after a heartbeat:
\* await asyncio.sleep(1.0), then the next iteration
ResumeAfterHeartbeat ==
    /\ conn = "open"
    /\ pc = "yieldH"
    /\ pc' = "sleep"
    /\ time' = Armed(time, SleepTicks)
    /\ UNCHANGED <<config, aside, registry, producer, queue, tasks, orphans, conn,
                   emitted, faults>>

SleepDone ==
    /\ pc = "sleep"
    /\ Expired(time)
    /\ pc' = "wait"
    /\ time' = Armed(time, WaitTicks)
    /\ UNCHANGED <<config, aside, registry, producer, queue, tasks, orphans, conn,
                   emitted, faults>>

\* Faulty variant: no "except Exception" around the iteration, so the
\* exception leaves the generator.
after_exception_uncaught == IF use_thread_safe_queue THEN "yieldH" ELSE "failed"

\* Where the loop stands after an exception other than a timeout or a
\* cancellation left the bounded wait.  Thread-safe branch: the bare
\* "except:" around the wait takes it for a timeout and yields a heartbeat.
\* Cooperative branch: "except asyncio.TimeoutError" lets it pass to the
\* outer "except Exception", which logs it and sleeps 0.1 s.
after_exception == IF use_thread_safe_queue THEN "yieldH" ELSE "backoff"

\* the await of the bounded wait raises (the executor or the loop fails)
WaitFails ==
    /\ conn = "open"
    /\ pc = "wait"
    /\ faults < MaxFaults
    /\ faults' = faults + 1
    /\ pc' = after_exception
    /\ IF pc' = "yieldH"
       THEN /\ Heartbeats < MaxHeartbeats
            /\ emitted' = Append(emitted, Heartbeat)
            /\ time' = HeartbeatYielded(time)
       ELSE /\ emitted' = emitted
            /\ time' = Armed(time, BackoffTicks)
    /\ UNCHANGED <<config, aside, registry, producer, queue, tasks, orphans, conn>>

\* await asyncio.sleep(0.1) of the outer except is over: next iteration
BackoffDone ==
    /\ pc = "backoff"
    /\ Expired(time)
    /\ pc' = "wait"
    /\ time' = Armed(time, WaitTicks)
    /\ UNCHANGED <<config, aside, registry, producer, queue, tasks, orphans, conn,
                   emitted, faults>>

\* The client disconnects: CancelledError at the await the loop is
\* suspended in, or GeneratorExit at its yield.  In the thread-safe branch
\* the wait and the telemetry yield stand inside "try: ... except:", which
\* catches both and goes on to the heartbeat yield.  After a cancelled wait
\* the heartbeat is handed to the response and the executor thread stays
\* blocked in queue.get; after GeneratorExit the yielded heartbeat is
\* discarded by the close ("async generator ignored GeneratorExit").
CloseConnection ==
    /\ conn = "open"
    /\ conn' = "closed"
    /\ IF use_thread_safe_queue /\ pc = "wait"
       THEN /\ emitted' = Append(emitted, Heartbeat)
            /\ pc' = "yieldH"
            /\ orphans' = orphans + 1
            /\ time' = HeartbeatYielded(time)
       ELSE IF use_thread_safe_queue /\ pc = "yieldT"
       THEN /\ pc' = "yieldH"
            /\ UNCHANGED <<emitted, orphans, time>>
       ELSE /\ pc' = "closed"
            /\ UNCHANGED <<emitted, orphans, time>>
    /\ UNCHANGED <<config, aside, registry, producer, queue, tasks, faults>>

\* the closed response finalizes a generator that went on after the
\* cancellation: GeneratorExit at the heartbeat yield leaves the loop
Finalize ==
    /\ conn = "closed"
    /\ pc = "yieldH"
    /\ pc' = "closed"
    /\ UNCHANGED <<config, aside, registry, producer, queue, tasks, orphans, conn,
                   emitted, faults, time>>

\* the executor thread of a cancelled wait returns from
\* queue.get(block=True, timeout=1.0); nobody receives its result
OrphanGet ==
    /\ orphans > 0
    /\ orphans' = orphans - 1
    /\ queue' = IF queue # <<>> THEN Tail(queue) ELSE queue
    /\ UNCHANGED <<config, aside, registry, producer, tasks, conn, pc, emitted,
                   faults, time>>

\* Every GET of the endpoint gets a generator of its own over the one
\* self.queue.  Two connections are modelled: the actions of the loop act
\* on the one the event loop is running, and the event loop turns to the
\* other one at any await or yield.
SwitchConnection ==
    /\ other' = [conn |-> conn, pc |-> pc, emitted |-> emitted]
    /\ conn' = other.conn
    /\ pc' = other.pc
    /\ emitted' = other.emitted
    /\ UNCHANGED <<use_thread_safe_queue, renderer, aside, registry, producer,
                   queue, tasks, orphans, faults, time>>

\* 0.1 s passes while the loop waits or sleeps.  What is ready happens
\* first: a patch in the queue ends the wait, a created put runs, an
\* expired timer fires.
Tick ==
    /\ time.on
    /\ conn = "open"
    /\ pc \in {"wait", "sleep", "backoff"}
    /\ time.timer > 0
    /\ tasks = <<>>
    /\ ~(pc = "wait" /\ queue # <<>>)
    /\ time' = Ticked(time)
    /\ UNCHANGED <<config, aside, registry, producer, queue, tasks, consumer>>

----------------------------------------------------------------------------
(* Specifications                                                          *)

Init == Configured({"Default"}) /\ time = NoClock

Next == OnStart("tree") \/ OnEnd("tree") \/ RunTask

Spec == Init /\ [][Next]_vars

InitRender == Configured({"Default", "Compact", "Custom"}) /\ time = NoClock

NextRender ==
    \/ AddRenderer
    \/ Len(calls) < MaxCalls /\ OnStart("render")
    \/ Len(calls) < MaxCalls /\ OnEnd("render")
    \/ RunTask

SpecRender == InitRender /\ [][NextRender]_vars

NextStream ==
    \/ Len(calls) < MaxStreamCalls /\ OnStart("stream")
    \/ Len(calls) < MaxStreamCalls /\ OnEnd("stream")
    \/ RunTask
    \/ Connect \/ GetPatch \/ GetTimeout
    \/ ResumeAfterTelemetry \/ ResumeAfterHeartbeat \/ SleepDone
    \/ CloseConnection \/ Finalize \/ OrphanGet

SpecStream == Init /\ [][NextStream]_vars

\* The stream with awaits that fail inside the generator loop.
NextFault ==
    \/ Len(calls) < MaxTimedCalls /\ OnStart("stream")
    \/ Len(calls) < MaxTimedCalls /\ OnEnd("stream")
    \/ RunTask
    \/ Connect \/ GetPatch \/ GetTimeout
    \/ ResumeAfterTelemetry \/ ResumeAfterHeartbeat \/ SleepDone
    \/ WaitFails \/ BackoffDone
    \/ CloseConnection \/ Finalize

SpecFault == Init /\ [][NextFault]_vars

\* Two stream connections over the one queue, while they are open.
NextShared ==
    \/ Len(calls) < MaxCalls /\ OnStart("shared")
    \/ Len(calls) < MaxCalls /\ OnEnd("shared")
    \/ RunTask
    \/ Connect \/ GetPatch \/ GetTimeout
    \/ ResumeAfterTelemetry \/ ResumeAfterHeartbeat \/ SleepDone
    \/ SwitchConnection

SpecShared == Init /\ [][NextShared]_vars

\* Registration from one thread while another dispatches.
NextDispatch ==
    AppendRenderer \/ BindRenderers \/ BeginDispatch \/ StepDispatch

SpecDispatch == Init /\ [][NextDispatch]_vars

\* example/math_example.py: configure(app, provider, renderers=[MathRenderer()])
InitMath == ConfiguredWith({"Default"}, <<"Math">>) /\ time = NoClock

NextMath == OnStart("math") \/ OnEnd("math") \/ RunTask

SpecMath == InitMath /\ [][NextMath]_vars

\* Callbacks made in a context that has or has not the suppress key set.
InitSuppress == Configured({"Default", "Custom"}) /\ time = NoClock

NextSuppress ==
    \/ Len(calls) < MaxCalls /\ OnStart("suppress")
    \/ Len(calls) < MaxCalls /\ OnEnd("suppress")
    \/ RunTask

SpecSuppress == InitSuppress /\ [][NextSuppress]_vars

\* Callbacks for different spans on different threads.
NextThreads ==
    \E t \in Threads :
        \/ ThreadBeginStart(t)
        \/ ThreadBeginEnd(t)
        \/ ThreadLoad(t)
        \/ ThreadStore(t)
        \/ ThreadRest(t)

SpecThreads == Init /\ [][NextThreads]_vars

\* register_attribute_renderer and the calls made on what it registers.
NextAttribute == RegisterAttributeRenderer \/ CallWrapper

SpecAttribute == Init /\ [][NextAttribute]_vars

\* DefaultSpanRenderer.render_complete_span over names and patterns.
NextExpand == RenderDefault

SpecExpand == Init /\ [][NextExpand]_vars

\* The stream with time measured: one client, connected from the start and
\* taking each event as it is yielded.
InitTimed == Configured({"Default"}) /\ time = StartClock

NextTimed ==
    \/ Len(calls) < MaxTimedCalls /\ OnStart("timed")
    \/ Len(calls) < MaxTimedCalls /\ OnEnd("timed")
    \/ RunTask
    \/ Connect \/ GetPatch \/ GetTimeout
    \/ ResumeAfterTelemetry \/ ResumeAfterHeartbeat \/ SleepDone
    \/ Tick

SpecTimed == InitTimed /\ [][NextTimed]_vars

----------------------------------------------------------------------------
(* The client.  The container create_container returns receives each       *)
(* telemetry event; the patch in it is a Div with hx_swap_oob and the id   *)
(* of its target, which the page swaps out of band: "beforeend" appends    *)
(* the Div's content to the element with that id, "innerHTML" puts the     *)
(* content in place of what that element contains, and a patch whose       *)
(* target is not in the document changes nothing.  The document is the set *)
(* of its elements that carry an id, each with the element it was put      *)
(* into.                                                                   *)

\* the page as served: the container of create_container
InitialDocument ==
    {[id |-> create_container.id, within |-> ElementId("page", None)]}

\* the first element with that id is the target; is there one
HasElement(doc, id) == \E e \in doc : e.id = id

\* hx_swap_oob="beforeend" / "innerHTML" with id=target
apply_patch(doc, node) ==
    LET content == {[id |-> x, within |-> node.id] : x \in node.body.ids}
    IN  IF ~HasElement(doc, node.id) THEN doc
        ELSE IF node.swap = "beforeend" THEN doc \cup content
        ELSE {e \in doc : e.within # node.id} \cup content

\* the document after the patches of seq were applied in order
RECURSIVE Applied(_)
Applied(seq) ==
    IF seq = <<>> THEN InitialDocument
    ELSE apply_patch(Applied(SubSeq(seq, 1, Len(seq) - 1)), seq[Len(seq)])

----------------------------------------------------------------------------
(* Properties                                                              *)

\* the patches of the latest callback, as the nodes they serialize
LastPatches == [i \in 1..Len(last.puts) |-> last.puts[i][1]]

\* the context the latest start callback was given carries a parent: a
\* recording current span with a valid span id
ContextHasParent ==
    last.ctx.present /\ last.ctx.recording /\ last.ctx.span_id # 0

IsPrefix(s, t) == Len(s) <= Len(t) /\ \A i \in 1..Len(s) : s[i] = t[i]

\* C1: a start callback whose context carries no valid recording parent and
\* whose span has no static parent appends to the configured root container,
\* and its render_complete_span call receives is_root = True.
C1_RootPlacement ==
    (last.op = "start" /\ ~ContextHasParent /\ last.span.parent = None) =>
        /\ last.target_id = ElementId("telemetry-container", None)
        /\ last.is_root
        /\ Len(last.puts) = 1
        /\ LastPatches[1].id = ElementId("telemetry-container", None)
        /\ LastPatches[1].body.is_root

C1_Witness ==
    /\ last.op = "start"
    /\ last.ctx.present /\ ~last.ctx.recording /\ last.ctx.span_id # 0
    /\ last.span.parent = None
    /\ Len(last.puts) = 1
    /\ Cardinality(DOMAIN spans) = 2

\* C2: a start callback that resolves a parent P (it records P as the span's
\* parent) appends to "span-children-<P>", whatever has happened to P's own
\* patch.
C2_ChildPlacement ==
    (last.op = "start" /\ last.parent_id # None) =>
        /\ last.target_id = ElementId("span-children-", last.parent_id)
        /\ \A i \in 1..Len(last.puts) :
             LastPatches[i].id = ElementId("span-children-", last.parent_id)

\* C3: a start callback rendered by a renderer class of renderers.py yields
\* exactly one "beforeend" patch, on the resolved container, that carries the
\* renderer's render_complete_span output for the span.
C3_ShippedStartPatch ==
    (last.op = "start" /\ last.renderer \in ShippedRenderers) =>
        /\ Len(last.puts) = 1
        /\ LastPatches[1].swap = "beforeend"
        /\ LastPatches[1].id = last.target_id
        /\ LastPatches[1].body.by = last.renderer
        /\ LastPatches[1].body.part = "complete"
        /\ LastPatches[1].body.span = last.span.span_id
        /\ ElementId("span-children-", last.span.span_id)
               \in LastPatches[1].body.ids
        /\ LastPatches[1].body.is_root = last.is_root

\* the three replace patches of the ended span, in order
ThreeReplacePatches ==
    /\ Len(last.puts) = 3
    /\ \A i \in 1..3 : LastPatches[i].swap = "innerHTML"
    /\ LastPatches[1].id = ElementId("span-header-", last.span.span_id)
    /\ LastPatches[2].id = ElementId("span-attributes-", last.span.span_id)
    /\ LastPatches[3].id = ElementId("span-events-", last.span.span_id)

Targets(seq) == [i \in 1..Len(seq) |-> seq[i][1].id]
Swaps(seq) == [i \in 1..Len(seq) |-> seq[i][1].swap]

\* the callback sequence start(1, no parent), start(2, parent 1), end(2),
\* end(1) has just completed
NestedPairDone ==
    /\ Len(calls) = 4
    /\ <<calls[1][1], calls[1][2]>> = <<"start", 1>>
    /\ <<calls[2][1], calls[2][2]>> = <<"start", 2>>
    /\ <<calls[3][1], calls[3][2]>> = <<"end", 2>>
    /\ <<calls[4][1], calls[4][2]>> = <<"end", 1>>
    /\ 1 \notin DOMAIN parent_child_map
    /\ 2 \in DOMAIN parent_child_map
    /\ parent_child_map[2] = 1

\* C5: after start(1, no parent), start(2, parent 1), end(2), end(1) the
\* queue has received eight patches: the two appends (root container, then
\* span-children-1), the three replaces of span 2, the three of span 1.
C5_NestedPairPatches ==
    NestedPairDone =>
        /\ Targets(queue \o tasks) =
             << ElementId("telemetry-container", None),
                ElementId("span-children-", 1),
                ElementId("span-header-", 2),
                ElementId("span-attributes-", 2),
                ElementId("span-events-", 2),
                ElementId("span-header-", 1),
                ElementId("span-attributes-", 1),
                ElementId("span-events-", 1) >>
        /\ Swaps(queue \o tasks) =
             << "beforeend", "beforeend", "innerHTML", "innerHTML",
                "innerHTML", "innerHTML", "innerHTML", "innerHTML" >>

C5_Witness == NestedPairDone /\ Len(queue) = 8

\* the payloads of the telemetry events emitted so far
Delivered ==
    LET t == SelectSeq(emitted, LAMBDA e : e.event = "TelemetryEvent")
    IN  [i \in 1..Len(t) |-> t[i].data]

\* C6: while the one consumer loop has not been cancelled, the telemetry
\* events emitted are a prefix of the patches produced, and a patch that has
\* been produced is emitted: once the loop waits on an empty queue with no
\* put pending, everything produced has been emitted.
C6_FifoDelivery ==
    conn # "closed" =>
        /\ IsPrefix(Delivered, produced)
        /\ (conn = "open" /\ pc = "wait" /\ queue = <<>> /\ tasks = <<>>)
               => Delivered = produced

\* C7: whatever fails inside a callback, on_start and on_end return normally.
C7_CallbacksNeverRaise == ~last.raised

C7_Witness ==
    /\ last.op = "end"
    /\ use_thread_safe_queue
    /\ "can_render" \in last.errors
    /\ "render" \in last.errors
    /\ ~last.raised

\* C8: no callback the tracing runtime can make waits on the queue, whatever
\* the queue holds and whatever the consumer is doing (none connected, one
\* waiting or suspended, one closed).
C8_CallbackNeverWaits ==
    /\ \A span_id \in SpanIds \ Started :
         \A ctx \in ContextInputs("stream", span_id),
            parent \in ParentInputs("stream", span_id),
            can \in CanInputs("stream"), loop \in LoopInputs("stream") :
           \A out \in StartOutcomes(can) :
             ~on_start(State, Span(span_id, parent, FALSE, FALSE, FALSE),
                       ctx, can, out, loop).blocked
    /\ \A span_id \in Started :
         \A can \in CanInputs("stream"), loop \in LoopInputs("stream") :
           \A out \in EndOutcomes(can) :
             ~on_end(State, Span(span_id, source[span_id].parent,
                                 source[span_id].attributes, FALSE, TRUE),
                     can, out, loop).blocked

C8_Witness ==
    /\ last.op = "end"
    /\ last.conn = "closed"
    /\ last.qlen >= 1
    /\ Len(queue) = last.qlen + 3

\* what the dispatcher has to return for the latest callback: the first
\* registered renderer whose can_render returned True, else the fallback
Accepting == {i \in 1..Len(last.can) : last.can[i] = "true"}
FirstAccepting ==
    IF Accepting = {} THEN renderer
    ELSE ListRenderers[CHOOSE i \in Accepting : \A j \in Accepting : i <= j]

\* C9: the dispatcher selects the first renderer in registration order whose
\* can_render is true, and the configured renderer when none is.
C9_FirstMatchSelected ==
    (last.op # "none" /\ use_thread_safe_queue
     /\ \A i \in 1..Len(last.can) : last.can[i] # "raise")
        => last.renderer = FirstAccepting

C9_Witness ==
    /\ last.op = "start"
    /\ proc_renderers = <<"R1", "R2">>
    /\ last.can = <<"true", "true">>
    /\ last.renderer = "R1"

\* C10: a renderer whose can_render raises counts as not matching: the
\* dispatcher goes on to the renderers after it and to the fallback, and the
\* error does not leave the dispatcher.
C10_RaisingPredicateSkipped ==
    (last.op # "none" /\ use_thread_safe_queue
     /\ \E i \in 1..Len(last.can) : last.can[i] = "raise")
        => /\ last.renderer = FirstAccepting
           /\ "can_render" \in last.errors
           /\ ~last.raised

C10_Witness ==
    /\ last.op = "start"
    /\ last.can = <<"raise", "true">>
    /\ last.renderer = "R2"
    /\ Len(last.puts) = 1

\* the renderer a callback has to use when the registered renderers are
\* tried in order before the configured one
FirstRegisteredAccepting ==
    IF Accepting = {} THEN renderer
    ELSE custom_renderers[CHOOSE i \in Accepting : \A j \in Accepting : i <= j]

\* C21: in both queue disciplines a start or end callback is rendered by
\* the first registered renderer (configure(renderers=...) or add_renderer)
\* whose can_render accepts the span, and by the configured renderer only
\* when none accepts it.
C21_RegisteredTriedFirst ==
    last.op # "none" => last.renderer = FirstRegisteredAccepting

\* C11: when one of the three end-time render calls raises, the patches of
\* the other two are still emitted.
C11_OtherPartsStillEmitted ==
    (last.op = "end" /\ "render" \in last.errors) =>
        /\ Len(last.puts) = 2
        /\ \A i \in 1..2 :
             /\ LastPatches[i].swap = "innerHTML"
             /\ LastPatches[i].id \in
                  {ElementId("span-header-", last.span.span_id),
                   ElementId("span-attributes-", last.span.span_id),
                   ElementId("span-events-", last.span.span_id)}
        /\ LastPatches[1].id # LastPatches[2].id

\* C12: once no patch has been enqueued for longer than the bounded wait,
\* the loop emits a heartbeat before the next telemetry event it emits.
C12_HeartbeatBeforeTelemetry == time.owed # "missed"

\* C13: while nothing is enqueued and nothing is delivered, the open stream
\* never goes longer than one bounded wait without a heartbeat.
C13_HeartbeatEveryPeriod == conn = "open" => time.quiet <= WaitTicks

\* C14: once the connection is closed the loop has terminated: it is not
\* left suspended at a further yield, in either queue discipline.
C14_ClosedLoopTerminated == conn = "closed" => pc = "closed"

\* C15: an exception raised inside an iteration (not a cancellation) does
\* not end the stream: the loop of the open connection is still running,
\* at its wait, at a yield or in one of its sleeps.
C15_LoopSurvivesException ==
    (conn = "open" /\ faults > 0) =>
        pc \in {"wait", "yieldT", "yieldH", "sleep", "backoff"}

C15_Witness ==
    /\ ~use_thread_safe_queue
    /\ conn = "open"
    /\ faults = 1
    /\ pc = "yieldT"
    /\ Len(emitted) = 1

\* C16: no step changes or removes an entry of the child-to-parent map, and
\* an end callback leaves the whole map as it was and stores the span it was
\* given as the snapshot of that id.
C16_ParentNeverChanges ==
    [][ /\ \A i \in DOMAIN parent_child_map :
             /\ i \in DOMAIN parent_child_map'
             /\ parent_child_map'[i] = parent_child_map[i]
        /\ (calls' # calls /\ last'.op = "end") =>
             /\ parent_child_map' = parent_child_map
             /\ last'.span.span_id \in DOMAIN spans'
             /\ spans'[last'.span.span_id] = last'.span
             /\ spans'[last'.span.span_id].ended ]_vars

C16_Witness ==
    /\ last.op = "end"
    /\ last.span.span_id \in DOMAIN parent_child_map
    /\ parent_child_map[last.span.span_id] = 1
    /\ spans[last.span.span_id].ended
    /\ spans[1].ended

\* C17: the resolved parent of a start callback is the id of the context's
\* valid recording parent when there is one, whatever span.parent says;
\* else the id of a valid span.parent; else none, and the span is a root.
C17_ParentResolution ==
    last.op = "start" =>
        IF ContextHasParent
        THEN last.parent_id = last.ctx.span_id
        ELSE IF last.span.parent # None /\ last.span.parent # 0
        THEN last.parent_id = last.span.parent
        ELSE /\ last.parent_id = None
             /\ last.is_root
             /\ last.span.span_id \notin DOMAIN parent_child_map

\* the registered renderers when n of them were registered
Registered(n) == SubSeq(ListRenderers, 1, n)

\* C18: a dispatch that ran while renderers were being registered returns
\* what a dispatch of the same span returns against the list as it was when
\* the dispatch began or as it was after a registration made meanwhile.
C18_DispatchSeesWholeList ==
    dispatch.state = "done" =>
        \E n \in Len(dispatch.before)..Len(dispatch.after) :
            dispatch.result =
                get_renderer_for_span(Registered(n), renderer, dispatch.can).r

C18_Witness ==
    /\ dispatch.state = "done"
    /\ dispatch.before = <<"R1">>
    /\ dispatch.after = <<"R1", "R2">>
    /\ dispatch.i = 2
    /\ dispatch.result = "R2"

\* the pattern occurs in the name at some offset, letter case aside
OccursIn(pattern, name) ==
    \E k \in 0..(Len(name) - Len(pattern)) :
        \A j \in 1..Len(pattern) :
            \/ pattern[j] = name[k + j]
            \/ {pattern[j], name[k + j]} = {"T", "t"}

\* C19: the rendered span starts expanded exactly when it is a root or its
\* name contains one of the configured patterns, case-insensitively.
C19_ExpandedIffRootOrPattern ==
    rendered.done =>
        (rendered.checked <=>
            \/ rendered.is_root
            \/ \E i \in 1..Len(rendered.patterns) :
                 OccursIn(rendered.patterns[i], rendered.name))

C19_Witness ==
    /\ rendered.done
    /\ ~rendered.is_root
    /\ rendered.name = <<":", "T", ":">>
    /\ rendered.patterns = << <<"t", ":">> >>
    /\ rendered.checked

\* the start patches produced so far, in order
StartPatches ==
    LET a == SelectSeq(produced, LAMBDA x : x[1].swap = "beforeend")
    IN  [i \in 1..Len(a) |-> a[i][1]]

\* C20: every start patch MathRenderer renders, also for a span it shows
\* nothing of, contains the element "span-children-<span id>"; the start
\* patch of a child of that span comes later and targets exactly that id.
C20_PassthroughKeepsContainer ==
    \A i \in 1..Len(StartPatches) :
        StartPatches[i].body.by = "Math" =>
            /\ ElementId("span-children-", StartPatches[i].body.span)
                   \in StartPatches[i].body.ids
            /\ \A j \in 1..Len(StartPatches) :
                 LET child == StartPatches[j].body.span
                 IN  (child \in DOMAIN parent_child_map
                      /\ parent_child_map[child] = StartPatches[i].body.span)
                     => /\ i < j
                        /\ StartPatches[j].id =
                             ElementId("span-children-",
                                       StartPatches[i].body.span)

C20_Witness ==
    /\ Len(StartPatches) = 2
    /\ StartPatches[1].body.by = "Math"
    /\ StartPatches[1].body.empty
    /\ StartPatches[1].body.span = 1
    /\ 2 \in DOMAIN parent_child_map
    /\ parent_child_map[2] = 1
    /\ StartPatches[2].id \in StartPatches[1].body.ids

\* C22: the renderer register_attribute_renderer(key, r) registered accepts
\* a span exactly when the span's attributes contain key, whatever r's own
\* can_render does, and its render methods are those of r.
C22_AcceptsIffKeyPresent ==
    wrapped.state = "called" =>
        /\ wrapped.result = "true" <=>
              wrapped.object.key \in wrapped.attributes.keys
        /\ wrapped.method.self = wrapped.object.base
        /\ wrapped.method.cls = wrapped.object.base

\* C23: every patch a callback produced is in the queue (or on its way
\* there as a created put), in both queue disciplines, whether or not the
\* calling thread runs the event loop and with no consumer present.
C23_EnqueueAlwaysSucceeds == queue \o tasks = produced

\* C24: every on_start and on_end call runs its body with the suppress key
\* set, and leaves the caller's context as it found it, whether or not
\* something failed inside.
C24_SuppressedThroughout ==
    last.op # "none" => (last.ctx_during /\ last.ctx_after = last.ctx_before)

\* C25: once every callback made on the threads has returned, each span
\* that was started has its own record in spans, in the state its latest
\* callback gave it, and its own resolved parent in parent_child_map (no
\* entry when it resolved none): no store of one thread undid another's.
C25_MapsNotCorrupted ==
    (\A t \in Threads : threads.run[t].pc = "idle") =>
        \A i \in Started :
            /\ i \in DOMAIN spans
            /\ spans[i].span_id = i
            /\ spans[i].ended = (source[i].state = "ended")
            /\ IF threads.resolved[i] = None
               THEN i \notin DOMAIN parent_child_map
               ELSE /\ i \in DOMAIN parent_child_map
                    /\ parent_child_map[i] = threads.resolved[i]

C25_Witness ==
    /\ \A t \in Threads : threads.run[t].pc = "idle"
    /\ threads.overlapped
    /\ Len(calls) >= 3
    /\ DOMAIN spans = {1, 2}
    /\ DOMAIN parent_child_map = {2}
    /\ spans[1].ended

\* C26: no step removes a tracked span; a start callback leaves the span it
\* was given tracked under its id, and an end callback replaces the record
\* of that id by the ended span without changing which ids are tracked,
\* whether or not the rendering inside the callback failed.
C26_TrackedOnlyGrows ==
    [][ /\ DOMAIN spans \subseteq DOMAIN spans'
        /\ calls' # calls =>
             /\ last'.span.span_id \in DOMAIN spans'
             /\ spans'[last'.span.span_id] = last'.span
             /\ last'.op = "end" =>
                  /\ DOMAIN spans' = DOMAIN spans
                  /\ ~spans[last'.span.span_id].ended
                  /\ spans'[last'.span.span_id].ended ]_vars

C26_Witness ==
    /\ last.op = "end"
    /\ "render" \in last.errors
    /\ last.puts = <<>>
    /\ DOMAIN spans = {1}
    /\ spans[1].ended

C28_ReselectedAtEnd ==
    (last.op = "end" /\ use_thread_safe_queue) =>
        /\ last.renderer = FirstAccepting
        /\ \A i \in 1..Len(last.puts) : LastPatches[i].body.by = last.renderer

C28_Witness ==
    /\ last.op = "end"
    /\ use_thread_safe_queue
    /\ Len(produced) = 4
    /\ produced[1][1].body.span = last.span.span_id
    /\ produced[1][1].body.by = "Default"
    /\ last.can = <<"true">>
    /\ \A i \in 2..4 : produced[i][1].body.by = "R1"

\* C29: a step that emits a heartbeat is made by a loop at its bounded
\* wait and takes no patch from the queue, and every patch a wait takes
\* from the queue is emitted in a telemetry event by that very step.
C29_HeartbeatOnlyAfterEmptyWait ==
    [][ /\ (Len(emitted') > Len(emitted)
            /\ emitted'[Len(emitted')].event = "heartbeat")
               => (pc = "wait" /\ queue' = queue)
        /\ (queue # <<>> /\ queue' = Tail(queue))
               => emitted' = Append(emitted, Telemetry(Head(queue))) ]_vars

\* the patches on their way to the consumer, in delivery order
Channel == [i \in 1..Len(queue \o tasks) |-> (queue \o tasks)[i][1]]

\* C30: in the delivery order every replace patch of a span comes after
\* the append patch of that span.
C30_ReplaceAfterOwnAppend ==
    \A j \in 1..Len(Channel) :
        Channel[j].swap = "innerHTML" =>
            \E i \in 1..(j - 1) :
                /\ Channel[i].swap = "beforeend"
                /\ Channel[i].body.span = Channel[j].body.span

\* position in the callbacks made so far of the start callback of a span
StartCall(span_id) ==
    CHOOSE k \in 1..Len(calls) : calls[k][1] = "start" /\ calls[k][2] = span_id

\* the append patches in delivery order
Appends ==
    LET a == SelectSeq(queue \o tasks, LAMBDA x : x[1].swap = "beforeend")
    IN  [i \in 1..Len(a) |-> a[i][1]]

\* C31: when the resolved parent of a started span is a span whose start
\* callback this processor handled before, the parent's append patch
\* precedes the child's in the queue, the child's patch targets the
\* children container that patch carries, and a client applying the
\* queue in order has that container when the child's patch arrives.
C31_ParentAppendFirst ==
    \A j \in 1..Len(Appends) :
        LET child == Appends[j].body.span
        IN  (/\ child \in DOMAIN parent_child_map
             /\ parent_child_map[child] \in Started
             /\ StartCall(parent_child_map[child]) < StartCall(child))
            => /\ \E i \in 1..(j - 1) :
                    /\ Appends[i].body.span = parent_child_map[child]
                    /\ Appends[j].id \in Appends[i].body.ids
               /\ Appends[j].id =
                    ElementId("span-children-", parent_child_map[child])
               /\ HasElement(Applied(SubSeq(Appends, 1, j - 1)), Appends[j].id)

\* C32: once the start patch of a span rendered by DefaultSpanRenderer has
\* been applied, the document has the elements "span-header-<id>",
\* "span-attributes-<id>" and "span-events-<id>" the three replace patches
\* of the end callback target.
C32_ReplaceTargetsCreated ==
    \A k \in 1..Len(Channel) :
        LET before == Applied(SubSeq(Channel, 1, k - 1))
            after  == apply_patch(before, Channel[k])
            id     == Channel[k].body.span
        IN  (/\ Channel[k].swap = "beforeend"
             /\ Channel[k].body.by = "Default"
             /\ HasElement(before, Channel[k].id))
            => /\ HasElement(after, header_id(id))
               /\ HasElement(after, attributes_id(id))
               /\ HasElement(after, events_id(id))

\* no two elements of the document carry the same id
UniqueIds(doc) == \A e1, e2 \in doc : e1.id = e2.id => e1 = e2

\* C33: after any number of the patches have been applied in order, no
\* two elements of the client document carry the same id.
C33_IdsStayUnique ==
    \A k \in 0..Len(Channel) : UniqueIds(Applied(SubSeq(Channel, 1, k)))

\* C34: whatever takes a patch out of the queue, whether the connection is
\* open, closing or closed, that patch is emitted in a telemetry event.
C34_NoPatchDiscarded ==
    [][ Len(queue') < Len(queue)
            => Delivered' = Append(Delivered, Head(queue)) ]_vars

\* the patches the loop of the other connection has emitted
DeliveredToOther ==
    LET t == SelectSeq(other.emitted, LAMBDA e : e.event = "TelemetryEvent")
    IN  [i \in 1..Len(t) |-> t[i].data]

\* C35: with two stream connections over the one queue, no patch is emitted
\* by both loops, and the patches emitted and the patches still waiting
\* are together no more than the patches enqueued.
C35_EmittedByOneLoop ==
    /\ \A i \in 1..Len(Delivered), j \in 1..Len(DeliveredToOther) :
           Delivered[i] # DeliveredToOther[j]
    /\ Len(Delivered) + Len(DeliveredToOther) + Len(queue) + Len(tasks)
           <= Len(produced)

C35_Witness ==
    /\ conn = "open"
    /\ other.conn = "open"
    /\ Len(Delivered) >= 1
    /\ Len(DeliveredToOther) >= 1
    /\ Len(produced) = Len(Delivered) + Len(DeliveredToOther)

\* C36: in the thread-safe discipline, while no consumer loop is running
\* (none has started yet, or the one there was has ended) the queue only
\* grows at its tail, and a loop emits the patches oldest first: each
\* telemetry event carries the head of the queue and removes it.
C36_RetainedForNextLoop ==
    [][ use_thread_safe_queue =>
          /\ pc \in {"none", "closed"} => IsPrefix(queue, queue')
          /\ Len(Delivered') > Len(Delivered) =>
                /\ queue # <<>>
                /\ Delivered' = Append(Delivered, Head(queue))
                /\ queue' = Tail(queue) ]_vars

\* C37: in every start callback the is_root flag passed to the renderer is
\* true exactly when the patch targets the root container, for every
\* resolved parent id.
C37_RootFlagMatchesTarget ==
    last.op = "start" =>
        /\ last.is_root <=> last.target_id = container_id
        /\ \A i \in 1..Len(last.puts) :
             LastPatches[i].body.is_root <=> LastPatches[i].id = container_id

\* C38: an end callback hands the queue either the three replace patches
\* of the span or none, whatever its render calls do.
C38_EndAllOrNothing ==
    last.op = "end" => Len(last.puts) \in {0, 3}

\* the tracker state as it is and a queue with nothing in it
FreshQueue == [State EXCEPT !.queue = <<>>, !.tasks = <<>>]

\* what a handler has left in the tracker and put on its way to the consumer
Effect(res) ==
    [spans |-> res.spans, pcm |-> res.pcm, patches |-> res.queue \o res.tasks]

\* C39: with no custom renderer registered, from any tracker state the two
\* processors have reached, the next start or end callback has the same
\* effect in FastHTMLSpanProcessor and in ThreadSafeSpanProcessor: the same
\* patches in the same order and the same tracker state, whatever the
\* render calls do and whatever thread the callback comes on.
C39_ProcessorsEquivalent ==
    custom_renderers = <<>> =>
        /\ \A span_id \in SpanIds \ Started :
             \A ctx \in ContextInputs("render", span_id),
                parent \in ParentInputs("render", span_id),
                loop \in BOOLEAN, out \in StartOutcomes(<<>>) :
               LET span == Span(span_id, parent, FALSE, FALSE, FALSE)
               IN  Effect(ts_handle_start(FreshQueue, span, ctx, <<>>, out, loop))
                   = Effect(fast_on_start(FreshQueue, span, ctx, <<>>, out, loop))
        /\ \A span_id \in Started :
             \A loop \in BOOLEAN, out \in EndOutcomes(<<>>) :
               LET span == Span(span_id, source[span_id].parent,
                                source[span_id].attributes, FALSE, TRUE)
               IN  Effect(ts_handle_end(FreshQueue, span, <<>>, out, loop))
                   = Effect(fast_on_end(FreshQueue, span, <<>>, out, loop))

====
